---- MODULE Spec2Model ----
(***************************************************************************)
(* Attendance tracking web service (asim5800/attendance-app).              *)
(*                                                                         *)
(* Two servers implement the service:                                      *)
(*   server.py  http.server.HTTPServer (one request at a time), sqlite     *)
(*              table `attendance`, in-memory dict `sessions`;             *)
(*   app.py     Flask application (threaded request handling), the same    *)
(*              sqlite table, Flask's client-side signed session cookie.   *)
(*                                                                         *)
(* Spec    is server.py: every action is one whole request handler.        *)
(* SpecApp is app.py: punch is split at the point where the handler has    *)
(*         read the clock and has not yet inserted, the only place where   *)
(*         two request threads can interleave observably.                  *)
(* SpecRun is server.py from its dispatchers do_GET and do_POST, over more *)
(*         paths and cookies and fewer request bodies than Spec, and with  *)
(*         the process stopped and started again.                          *)
(* SpecFault is SpecRun with database calls that may raise.                *)
(* SpecThreads is handle_login and handle_logout statement by statement.   *)
(* SpecBoth sends every request to server.py and then to app.py.           *)
(*                                                                         *)
(* Text is a sequence of tokens: the characters of an employee_id, the     *)
(* delimiters of the CSV, and one token for each other piece of text, so   *)
(* that the CSV handle_export builds can be split again on its delimiters. *)
(* Optional values (Python None) are <<>> and <<v>>.                       *)
(*                                                                         *)
(* The clock is the wall clock: two reads give the same value unless it    *)
(* ticked in between. ORDER BY timestamp fixes the order of rows only as   *)
(* far as their timestamps differ. A handler that raises writes no         *)
(* response in server.py (status 0) and answers 500 in app.py.             *)
(***************************************************************************)
EXTENDS Integers, Sequences, FiniteSets, TLC

VARIABLES
    attendance,       \* server.py: rows of table attendance, in rowid order
    sqlite_sequence,  \* server.py: AUTOINCREMENT high-water mark of the table
    sessions,         \* server.py: the dict sessions (session_id -> True)
    generated,        \* server.py: values uuid.uuid4() has returned so far
    clock,            \* the wall clock read by datetime.utcnow()
    request,          \* the request handled last
    response,         \* the response written for it
    app_attendance,   \* app.py: rows of table attendance, in rowid order
    app_sequence,     \* app.py: AUTOINCREMENT high-water mark
    app_cookies,      \* app.py: session cookies Flask has signed and sent
    app_logged_out,   \* app.py: admin cookies since presented to /admin/logout
    app_threads,      \* app.py: request threads inside punch()
    client,           \* SpecBoth: the client sending each request to both
    server_threads    \* SpecThreads: handlers of server.py in progress

vars == <<attendance, sqlite_sequence, sessions, generated, clock, request,
          response, app_attendance, app_sequence, app_cookies, app_logged_out,
          app_threads, client, server_threads>>

\* the state of each server; neither server changes the state of the other
\* or that of the client, and a handler taken as one step leaves no handler
\* in progress
serverVars == <<attendance, sqlite_sequence, sessions, generated, client,
                server_threads>>
appVars == <<app_attendance, app_sequence, app_cookies, app_logged_out,
             app_threads, client, server_threads>>

----------------------------------------------------------------------------
(* Bounds of the model *)

MaxRecords == 2
MaxClock == 1
MaxUuids == 2
MaxThreads == 2

----------------------------------------------------------------------------
(* Values *)

None == <<>>
Some(v) == <<v>>

\* employee_id strings a client may send; the second holds the CSV delimiter
EmployeeIds == { <<"E", "1">>, <<"a", ",", "b">> }

\* latitude / longitude in tenths of a degree (15 is 1.5), each optional
Coordinates == { <<None, None>>, <<Some(15), None>>, <<Some(15), Some(25)>> }

UUIDs == { "uuid" \o ToString(i) : i \in 1..MaxUuids }

\* a generator that returns the same value again
uuid4_repeating(used) == "uuid1"

\* uuid.uuid4(): a value it has not returned before (the n-th call's value
\* is named uuid<n>)
uuid4(used) == "uuid" \o ToString(Cardinality(used) + 1)

ADMIN_USERNAME == "admin"
ADMIN_PASSWORD == "admin123"

\* a JSON body: the four keys handle_punch reads, and in extra whatever
\* other keys the client put into the object
Body(k, e, a, c) ==
    [kind |-> k, employee_id |-> e, action |-> a,
     latitude |-> c[1], longitude |-> c[2], extra |-> << >>]

\* the same object with keys id and timestamp added by the client
WithExtra(body, id, timestamp) ==
    [body EXCEPT !.extra = [id |-> id, timestamp |-> timestamp]]

\* JSON bodies of POST /punch that pass validation
ValidBodies ==
    { Body("object", Some(<<"E", "1">>), Some("in"), <<Some(15), Some(25)>>),
      Body("object", Some(<<"E", "1">>), Some("out"), <<None, None>>),
      Body("object", Some(<<"a", ",", "b">>), Some("in"), <<Some(15), None>>) }

\* JSON bodies of POST /punch: not JSON at all, JSON that is not an object,
\* and objects with a key missing (dict.get gives None), an empty
\* employee_id or an action that is neither in nor out
Bodies ==
    { Body(k, None, None, <<None, None>>) : k \in {"malformed", "array"} }
    \cup { Body("object", e, Some("in"), <<None, None>>) :
             e \in {None, Some(<<>>)} }
    \cup { Body("object", Some(<<"E", "1">>), a, <<None, None>>) :
             a \in {None, Some("IN")} }
    \cup ValidBodies
    \* a valid body whose client also sent id 7 and timestamp 9
    \cup { WithExtra(Body("object", Some(<<"E", "1">>), Some("in"),
                          <<Some(15), Some(25)>>),
                     7, 9) }

NoBody == Body("none", None, None, <<None, None>>)

Form(u, p) == [utf8 |-> TRUE, username |-> u, password |-> p]

\* bodies of POST /admin/login: form fields (each may be missing), or bytes
\* that are not UTF-8
Forms ==
    { Form(Some(ADMIN_USERNAME), Some(ADMIN_PASSWORD)),
      Form(Some(ADMIN_USERNAME), Some("guess")),
      Form(Some("eve"), Some(ADMIN_PASSWORD)),
      Form(Some(ADMIN_USERNAME), None),
      Form(None, None),
      [utf8 |-> FALSE, username |-> None, password |-> None] }

NoForm == Form(None, None)

\* Cookie request headers: no header, a session_id cookie (empty or a uuid),
\* alone or after another cookie
Cookie(n, v) == [name |-> n, value |-> v]

CookieHeaders ==
    { <<>>, <<Cookie("session_id", "")>>,
      <<Cookie("theme", "dark"), Cookie("session_id", "uuid1")>> }
    \cup { <<Cookie("session_id", v)>> : v \in UUIDs }

Request(m, p, c, b, f) ==
    [method |-> m, path |-> p, cookie |-> c, body |-> b, form |-> f]

NoJson == <<>>
Json(ok, msg) == << [success |-> ok, message |-> msg] >>

\* status 0: the handler raised, http.server closed the connection unanswered
Response(st, loc, ck, js, rows, csv) ==
    [status |-> st, location |-> loc, set_cookie |-> ck, json |-> js,
     rows |-> rows, csv |-> csv]

Redirect(loc, ck) == Response(302, loc, ck, NoJson, <<>>, <<>>)
JsonResponse(st, ok, msg) == Response(st, "", None, Json(ok, msg), <<>>, <<>>)
Page(st) == Response(st, "", None, NoJson, <<>>, <<>>)
ConnectionClosed == Response(0, "", None, NoJson, <<>>, <<>>)

----------------------------------------------------------------------------
(* The attendance table *)

Record(i, e, a, t, lat, lon) ==
    [id |-> i, employee_id |-> e, action |-> a, timestamp |-> t,
     latitude |-> lat, longitude |-> lon]

\* a table whose id is not AUTOINCREMENT and is handed out again
InsertId_reused(seq) == IF seq = 0 THEN 1 ELSE seq

\* INSERT INTO attendance (...) VALUES (...) with id INTEGER PRIMARY KEY
\* AUTOINCREMENT: the new rowid is one more than the largest ever used
InsertId(seq) == seq + 1

Insert(table, seq, e, a, t, lat, lon) ==
    Append(table, Record(InsertId(seq), e, a, t, lat, lon))

Perms(n) ==
    { p \in [1..n -> 1..n] : \A i, j \in 1..n : i # j => p[i] # p[j] }

\* SELECT ... ORDER BY timestamp [DESC]: every row once, sorted on timestamp
\* alone; the statement gives no second key, so rows with equal timestamps
\* come in whatever order the engine produces
InOrder(t1, t2, desc) == IF desc THEN t1 >= t2 ELSE t1 <= t2

OrderByTimestamp(table, desc) ==
    { [i \in 1..Len(table) |-> table[p[i]]] :
        p \in { q \in Perms(Len(table)) :
                  \A i \in 1..(Len(table) - 1) :
                      InOrder(table[q[i]].timestamp,
                              table[q[i + 1]].timestamp, desc) } }

----------------------------------------------------------------------------
(* server.py *)

\* get_session_id: value of the first cookie named session_id, else None
RECURSIVE get_session_id(_)
get_session_id(cookie_header) ==
    IF cookie_header = <<>> THEN None
    ELSE IF Head(cookie_header).name = "session_id"
         THEN Some(Head(cookie_header).value)
         ELSE get_session_id(Tail(cookie_header))

Truthy(opt) == opt # None /\ opt[1] # ""

\* a check that takes any non-empty session_id cookie for a session
is_authenticated_any_token(cookie_header, reg) ==
    Truthy(get_session_id(cookie_header))

\* is_authenticated: bool(session_id and sessions.get(session_id))
is_authenticated(cookie_header, reg) ==
    LET session_id == get_session_id(cookie_header) IN
        /\ Truthy(session_id)
        /\ session_id[1] \in DOMAIN reg
        /\ reg[session_id[1]]

\* a JSON number as Python formats it in an f-string (repr of the float)
FloatText(c) == << ToString(c \div 10), ".", ToString(c % 10) >>

\* datetime.isoformat(): fixed-width text whose order is the order of the
\* instants, which is why ORDER BY on the TEXT column is modelled on clock
IsoFormat(t) == << "T", ToString(t) >>

\* serve_admin, lines 154-166: one <tr> per fetched row, '-' for a NULL
lat_display(opt) == IF opt = None THEN << "-" >> ELSE FloatText(opt[1])

TableRow(rec) ==
    [id |-> rec.id, employee_id |-> rec.employee_id, action |-> rec.action,
     timestamp |-> IsoFormat(rec.timestamp),
     latitude |-> lat_display(rec.latitude),
     longitude |-> lat_display(rec.longitude)]

\* handle_export, lines 262-267
CsvHeader == << "Employee ID", ",", "Action", ",", "Timestamp (UTC)", ",",
                "Latitude", ",", "Longitude" >>

lat_val(opt) == IF opt = None THEN <<>> ELSE FloatText(opt[1])

CsvLine(rec) ==
    rec.employee_id \o <<",">> \o <<rec.action>> \o <<",">>
        \o IsoFormat(rec.timestamp) \o <<",">>
        \o lat_val(rec.latitude) \o <<",">> \o lat_val(rec.longitude)

RECURSIVE Join(_, _)
Join(lines, sep) ==
    IF lines = <<>> THEN <<>>
    ELSE IF Len(lines) = 1 THEN Head(lines)
    ELSE Head(lines) \o <<sep>> \o Join(Tail(lines), sep)

csv_data(rows) ==
    Join(<<CsvHeader>> \o [i \in 1..Len(rows) |-> CsvLine(rows[i])], "\n")

\* params.get(name, [''])[0]
FormField(opt) == IF opt = None THEN "" ELSE opt[1]

PunchValid(body) ==
    /\ body.kind = "object"
    /\ body.employee_id # None /\ body.employee_id[1] # <<>>
    /\ body.action \in {Some("in"), Some("out")}

\* a handler that stores the id and timestamp keys of the body when the
\* client sent them
InsertPunch_client_fields(table, seq, body, now) ==
    Append(table,
           Record(IF body.extra = << >> THEN InsertId(seq) ELSE body.extra.id,
                  body.employee_id[1], body.action[1],
                  IF body.extra = << >> THEN now ELSE body.extra.timestamp,
                  body.latitude, body.longitude))

\* lines 190-207: the INSERT names employee_id, action, timestamp, latitude
\* and longitude, bound to the four values read with data.get and to the
\* clock reading; no other key of the body is read
InsertPunch(table, seq, body, now) ==
    Insert(table, seq, body.employee_id[1], body.action[1], now,
           body.latitude, body.longitude)

\* handle_punch, lines 178-214
handle_punch(cookie_header, body) ==
    /\ request' = Request("POST", "/punch", cookie_header, body, NoForm)
    /\ UNCHANGED <<sessions, generated, clock>>
    /\ UNCHANGED appVars
    /\ IF body.kind = "malformed"
       THEN /\ response' = JsonResponse(400, FALSE, "Invalid JSON.")
            /\ UNCHANGED <<attendance, sqlite_sequence>>
       ELSE IF body.kind # "object"
       THEN \* data.get raises AttributeError: no response is written
            /\ response' = ConnectionClosed
            /\ UNCHANGED <<attendance, sqlite_sequence>>
       ELSE IF ~PunchValid(body)
       THEN /\ response' = JsonResponse(400, FALSE, "Invalid payload.")
            /\ UNCHANGED <<attendance, sqlite_sequence>>
       ELSE /\ Len(attendance) < MaxRecords
            /\ attendance' = InsertPunch(attendance, sqlite_sequence, body,
                                         clock)
            /\ sqlite_sequence' = InsertId(sqlite_sequence)
            /\ response' = JsonResponse(200, TRUE,
                                        "Punch recorded successfully.")

\* handle_login, lines 216-236
CredentialsMatch(form) ==
    /\ FormField(form.username) = ADMIN_USERNAME
    /\ FormField(form.password) = ADMIN_PASSWORD

\* a registry whose new entry is not marked authenticated
Register_false(reg, session_id) ==
    [t \in (DOMAIN reg) \cup {session_id} |->
        IF t = session_id THEN FALSE ELSE reg[t]]

\* a registry that holds one session at a time
Register_only(reg, session_id) == [t \in {session_id} |-> TRUE]

Register(reg, session_id) ==
    [t \in (DOMAIN reg) \cup {session_id} |->
        IF t = session_id THEN TRUE ELSE reg[t]]

handle_login(form) ==
    /\ request' = Request("POST", "/admin/login", <<>>, NoBody, form)
    /\ UNCHANGED <<attendance, sqlite_sequence, clock>>
    /\ UNCHANGED appVars
    /\ IF ~form.utf8
       THEN \* body.decode('utf-8') raises: no response is written
            /\ response' = ConnectionClosed
            /\ UNCHANGED <<sessions, generated>>
       ELSE IF CredentialsMatch(form)
       THEN /\ generated # UUIDs
            /\ LET session_id == uuid4(generated) IN
                 /\ generated' = generated \cup {session_id}
                 /\ sessions' = Register(sessions, session_id)
                 /\ response' = Redirect("/admin",
                                    Some(Cookie("session_id", session_id)))
       ELSE /\ response' = Redirect("/admin/login?error=1", None)
            /\ UNCHANGED <<sessions, generated>>

\* handle_logout, lines 238-247
Destroy_all(reg, cookie_header) ==
    LET session_id == get_session_id(cookie_header) IN
        IF Truthy(session_id) /\ session_id[1] \in DOMAIN reg
        THEN << >>
        ELSE reg

Destroy(reg, cookie_header) ==
    LET session_id == get_session_id(cookie_header) IN
        IF Truthy(session_id) /\ session_id[1] \in DOMAIN reg
        THEN [t \in (DOMAIN reg) \ {session_id[1]} |-> reg[t]]
        ELSE reg

handle_logout(cookie_header) ==
    /\ request' = Request("GET", "/admin/logout", cookie_header, NoBody, NoForm)
    /\ sessions' = Destroy(sessions, cookie_header)
    /\ response' = Redirect("/admin/login",
                            Some(Cookie("session_id", "deleted")))
    /\ UNCHANGED <<attendance, sqlite_sequence, generated, clock>>
    /\ UNCHANGED appVars

\* serve_admin, lines 136-176
serve_admin(cookie_header) ==
    /\ request' = Request("GET", "/admin", cookie_header, NoBody, NoForm)
    /\ UNCHANGED <<serverVars, clock>>
    /\ UNCHANGED appVars
    /\ IF ~is_authenticated(cookie_header, sessions)
       THEN response' = Redirect("/admin/login", None)
       ELSE \E records \in OrderByTimestamp(attendance, TRUE) :
                response' = Response(200, "", None, NoJson,
                    [i \in 1..Len(records) |-> TableRow(records[i])], <<>>)

\* handle_export, lines 249-273
handle_export(cookie_header) ==
    /\ request' = Request("GET", "/admin/export", cookie_header, NoBody, NoForm)
    /\ UNCHANGED <<serverVars, clock>>
    /\ UNCHANGED appVars
    /\ IF ~is_authenticated(cookie_header, sessions)
       THEN response' = Redirect("/admin/login", None)
       ELSE \E rows \in OrderByTimestamp(attendance, FALSE) :
                response' = Response(200, "", None, NoJson, <<>>,
                                     csv_data(rows))

\* serve_template, lines 107-118, for GET / and GET /admin/login
serve_template(path, cookie_header) ==
    /\ request' = Request("GET", path, cookie_header, NoBody, NoForm)
    /\ response' = Page(200)
    /\ UNCHANGED <<serverVars, clock>>
    /\ UNCHANGED appVars

----------------------------------------------------------------------------
(* app.py *)

\* Flask's session: a dict kept in a signed cookie named session
Session(admin, flashes) == [admin_logged_in |-> admin, flashes |-> flashes]

EmptySession == Session(FALSE, FALSE)

\* the cookie value Flask signs for a session
save_session(sess) ==
    IF sess.admin_logged_in /\ sess.flashes THEN "admin+flashes"
    ELSE IF sess.admin_logged_in THEN "admin"
    ELSE IF sess.flashes THEN "flashes"
    ELSE ""

RECURSIVE CookieValue(_, _)
CookieValue(cookie_header, name) ==
    IF cookie_header = <<>> THEN None
    ELSE IF Head(cookie_header).name = name
         THEN Some(Head(cookie_header).value)
         ELSE CookieValue(Tail(cookie_header), name)

\* the session Flask loads from a request: the dict of the cookie when its
\* signature is one Flask made, else an empty session
open_session(cookie_header, signed) ==
    LET v == CookieValue(cookie_header, "session") IN
        IF v = None \/ v[1] \notin signed THEN EmptySession
        ELSE Session(v[1] \in {"admin", "admin+flashes"},
                     v[1] \in {"flashes", "admin+flashes"})

\* the Set-Cookie of a response whose handler changed the session
SetSession(sess) == Some(Cookie("session", save_session(sess)))

AppCookieHeaders(signed) ==
    { <<>> } \cup { <<Cookie("session", v)>> : v \in signed }

Idle == [pc |-> "idle", body |-> NoBody, timestamp |-> 0]

Inserting == { th \in 1..MaxThreads : app_threads[th].pc = "insert" }

\* punch, lines 86-98: up to the read of the clock
punch(th, body) ==
    /\ app_threads[th].pc = "idle"
    /\ UNCHANGED <<app_attendance, app_sequence, app_cookies, app_logged_out,
                   clock>>
    /\ UNCHANGED serverVars
    /\ IF ~PunchValid(body)
       THEN /\ request' = Request("POST", "/punch", <<>>, body, NoForm)
            /\ response' =
                 \* get_json() rejects a body that is not JSON with 400
                 IF body.kind = "malformed" THEN Page(400)
                 \* data.get raises AttributeError: 500
                 ELSE IF body.kind # "object" THEN Page(500)
                 ELSE IF ~(body.employee_id # None /\ body.employee_id[1] # <<>>
                           /\ body.action # None /\ body.action[1] # "")
                 THEN JsonResponse(400, FALSE,
                                   "Employee ID and action are required.")
                 ELSE JsonResponse(400, FALSE, "Invalid action specified.")
            /\ UNCHANGED app_threads
       ELSE /\ Len(app_attendance) + Cardinality(Inserting) < MaxRecords
            /\ app_threads' = [app_threads EXCEPT ![th] =
                   [pc |-> "insert", body |-> body, timestamp |-> clock]]
            /\ UNCHANGED <<request, response>>

\* punch, lines 99-108: the insert and the response
punch_insert(th) ==
    /\ app_threads[th].pc = "insert"
    /\ LET body == app_threads[th].body IN
         /\ app_attendance' = Insert(app_attendance, app_sequence,
                                     body.employee_id[1], body.action[1],
                                     app_threads[th].timestamp,
                                     body.latitude, body.longitude)
         /\ request' = Request("POST", "/punch", <<>>, body, NoForm)
    /\ app_sequence' = InsertId(app_sequence)
    /\ response' = JsonResponse(200, TRUE, "Punch recorded successfully.")
    /\ app_threads' = [app_threads EXCEPT ![th] = Idle]
    /\ UNCHANGED <<app_cookies, app_logged_out, clock>>
    /\ UNCHANGED serverVars

\* admin_login, lines 117-125 (POST)
admin_login(form, cookie_header) ==
    LET sess == open_session(cookie_header, app_cookies) IN
    /\ request' = Request("POST", "/admin/login", cookie_header, NoBody, form)
    /\ UNCHANGED <<app_attendance, app_sequence, app_logged_out, app_threads,
                   clock>>
    /\ UNCHANGED serverVars
    /\ IF form.username = Some(ADMIN_USERNAME) /\ form.password = None
       THEN \* check_password_hash(hash, None) raises
            /\ response' = Page(500)
            /\ UNCHANGED app_cookies
       ELSE IF form.username = Some(ADMIN_USERNAME)
               /\ form.password = Some(ADMIN_PASSWORD)
       THEN /\ response' = Redirect("/admin",
                               SetSession(Session(TRUE, sess.flashes)))
            /\ app_cookies' = app_cookies
                    \cup { save_session(Session(TRUE, sess.flashes)) }
       ELSE \* flash() stores the message in the session
            /\ response' = Redirect("/admin/login",
                               SetSession(Session(sess.admin_logged_in, TRUE)))
            /\ app_cookies' = app_cookies
                    \cup { save_session(Session(sess.admin_logged_in, TRUE)) }

\* admin_dashboard, lines 135-144
admin_dashboard(cookie_header) ==
    /\ request' = Request("GET", "/admin", cookie_header, NoBody, NoForm)
    /\ UNCHANGED <<appVars, clock>>
    /\ UNCHANGED serverVars
    /\ IF ~open_session(cookie_header, app_cookies).admin_logged_in
       THEN response' = Redirect("/admin/login", None)
       ELSE \E records \in OrderByTimestamp(app_attendance, TRUE) :
                response' = Response(200, "", None, NoJson,
                    [i \in 1..Len(records) |-> TableRow(records[i])], <<>>)

\* admin_logout, lines 150-151: the flag is popped from the session of this
\* request; cookies signed earlier stay valid
admin_logout(cookie_header) ==
    LET sess == open_session(cookie_header, app_cookies)
        left == Session(FALSE, sess.flashes)
    IN
    /\ request' = Request("GET", "/admin/logout", cookie_header, NoBody, NoForm)
    /\ response' = Redirect("/admin/login",
                       IF sess.admin_logged_in THEN SetSession(left) ELSE None)
    /\ app_cookies' = IF sess.admin_logged_in /\ left # EmptySession
                      THEN app_cookies \cup { save_session(left) }
                      ELSE app_cookies
    /\ app_logged_out' = IF sess.admin_logged_in
                         THEN app_logged_out \cup { save_session(sess) }
                         ELSE app_logged_out
    /\ UNCHANGED <<app_attendance, app_sequence, app_threads, clock>>
    /\ UNCHANGED serverVars

\* csv.writer: a field holding the delimiter is put in double quotes, and
\* every row ends with \r\n
app_csv_field(text) ==
    IF \E i \in 1..Len(text) : text[i] = ","
    THEN << "\"" >> \o text \o << "\"" >>
    ELSE text

app_csv_row(fields) ==
    Join([i \in 1..Len(fields) |-> app_csv_field(fields[i])], ",")
        \o << "\r\n" >>

RECURSIVE Concat(_)
Concat(texts) ==
    IF texts = <<>> THEN <<>> ELSE Head(texts) \o Concat(Tail(texts))

\* export_csv, lines 160-182: str() of each column, '' for a NULL
app_csv_data(rows) ==
    Concat(<< app_csv_row(<< <<"Employee ID">>, <<"Action">>,
                             <<"Timestamp (UTC)">>, <<"Latitude">>,
                             <<"Longitude">> >>) >>
           \o [i \in 1..Len(rows) |->
                 app_csv_row(<< rows[i].employee_id, << rows[i].action >>,
                                IsoFormat(rows[i].timestamp),
                                lat_val(rows[i].latitude),
                                lat_val(rows[i].longitude) >>)])

\* export_csv, lines 154-182
export_csv(cookie_header) ==
    /\ request' = Request("GET", "/admin/export", cookie_header, NoBody, NoForm)
    /\ UNCHANGED <<appVars, clock>>
    /\ UNCHANGED serverVars
    /\ IF ~open_session(cookie_header, app_cookies).admin_logged_in
       THEN response' = Redirect("/admin/login", None)
       ELSE \E rows \in OrderByTimestamp(app_attendance, FALSE) :
                response' = Response(200, "", None, NoJson, <<>>,
                                     app_csv_data(rows))

\* a thread of server.py that is handling no request
Waiting == [pc |-> "idle", session_id |-> ""]

\* the clock advances between two reads, or does not
Tick ==
    /\ clock < MaxClock
    /\ clock' = clock + 1
    /\ UNCHANGED <<serverVars, request, response>>
    /\ UNCHANGED appVars

\* run(), lines 276-282: init_db on an empty database, no session, and no
\* request handled yet
Init ==
    /\ attendance = <<>>
    /\ sqlite_sequence = 0
    /\ sessions = << >>
    /\ generated = {}
    /\ clock = 0
    /\ request = Request("", "", <<>>, NoBody, NoForm)
    /\ response = Page(0)
    /\ client = [phase |-> "server",
                 request |-> Request("", "", <<>>, NoBody, NoForm),
                 server |-> Page(0), app |-> Page(0),
                 jars |-> { [server |-> <<>>, app |-> <<>>] }]
    /\ app_attendance = <<>>
    /\ app_sequence = 0
    /\ app_cookies = {}
    /\ app_logged_out = {}
    /\ app_threads = [th \in 1..MaxThreads |-> Idle]
    /\ server_threads = [th \in 1..MaxThreads |-> Waiting]

\* do_GET, lines 61-83, and do_POST, lines 85-93
Next ==
    \/ \E body \in Bodies : handle_punch(<<>>, body)
    \/ \E form \in Forms : handle_login(form)
    \/ \E c \in CookieHeaders : handle_logout(c)
    \/ \E c \in CookieHeaders : serve_admin(c)
    \/ \E c \in CookieHeaders : handle_export(c)
    \/ \E p \in {"/", "/admin/login"} : serve_template(p, <<>>)
    \/ Tick

Spec == Init /\ [][Next]_vars

\* send_error(404, 'Not Found'), lines 83 and 93: the request is answered
\* before its body is read
send_error(method, path, cookie_header, code) ==
    /\ request' = Request(method, path, cookie_header, NoBody, NoForm)
    /\ response' = Page(code)
    /\ UNCHANGED <<serverVars, clock>>
    /\ UNCHANGED appVars

\* paths for which path.startswith('/static/') holds; the second leaves the
\* static directory once normalised
StaticPaths == { "/static/app.js", "/static/../server.py" }

\* serve_static, lines 96-105: 403 outside the static directory, else the
\* file as SimpleHTTPRequestHandler.do_GET serves it (200, or 404 when
\* there is no such file)
serve_static(path, cookie_header) ==
    IF path = "/static/../server.py"
    THEN send_error("GET", path, cookie_header, 403)
    ELSE \E code \in {200, 404} : send_error("GET", path, cookie_header, code)

\* do_GET, lines 61-83
do_GET(path, cookie_header) ==
    IF path \in StaticPaths THEN serve_static(path, cookie_header)
    ELSE IF path \in {"/", "/index.html"}
    THEN serve_template(path, cookie_header)
    ELSE IF path = "/admin/login" THEN serve_template(path, cookie_header)
    ELSE IF path = "/admin" THEN serve_admin(cookie_header)
    ELSE IF path = "/admin/logout" THEN handle_logout(cookie_header)
    ELSE IF path = "/admin/export" THEN handle_export(cookie_header)
    ELSE send_error("GET", path, cookie_header, 404)

\* a dispatcher that takes a logout with any method
do_POST_logout(path, cookie_header, body, form) ==
    IF path = "/punch" THEN handle_punch(cookie_header, body)
    ELSE IF path = "/admin/login" THEN handle_login(form)
    ELSE IF path = "/admin/logout" THEN handle_logout(cookie_header)
    ELSE send_error("POST", path, cookie_header, 404)

\* do_POST, lines 85-93
do_POST(path, cookie_header, body, form) ==
    IF path = "/punch" THEN handle_punch(cookie_header, body)
    ELSE IF path = "/admin/login" THEN handle_login(form)
    ELSE send_error("POST", path, cookie_header, 404)

\* the process is stopped and run() is called again: the module is loaded
\* anew (sessions = {}, line 35), init_db keeps the table of the database
\* file (CREATE TABLE IF NOT EXISTS), and no request has been handled yet
Restart ==
    /\ sessions' = << >>
    /\ request' = Request("", "", <<>>, NoBody, NoForm)
    /\ response' = Page(0)
    /\ UNCHANGED <<attendance, sqlite_sequence, generated, clock>>
    /\ UNCHANGED appVars

\* request lines and contents sent to the running server
Paths ==
    { "/", "/index.html", "/punch", "/admin/login", "/admin", "/admin/logout",
      "/admin/export", "/nope" } \cup StaticPaths

RunCookieHeaders == { <<>>, <<Cookie("session_id", "uuid1")>>,
                      <<Cookie("session_id", "uuid2")>> }

\* what a POST carries: the body as handle_punch reads it and as
\* handle_login reads it (each route reads it one way only)
RunPosts ==
    { [body |-> Body("object", Some(<<"E", "1">>), Some("in"),
                     <<Some(15), Some(25)>>),
       form |-> Form(Some(ADMIN_USERNAME), Some(ADMIN_PASSWORD))],
      [body |-> Body("object", Some(<<"E", "1">>), Some("IN"), <<None, None>>),
       form |-> Form(Some(ADMIN_USERNAME), Some("guess"))] }

\* run(), lines 276-285: serve_forever handles one request after the other
NextRun ==
    \/ \E p \in Paths, c \in RunCookieHeaders : do_GET(p, c)
    \/ \E p \in Paths, c \in RunCookieHeaders, post \in RunPosts :
           do_POST(p, c, post.body, post.form)
    \/ Tick
    \/ Restart

SpecRun == Init /\ [][NextRun]_vars

\* A request whose sqlite3 call raises (the database file is locked, the
\* disk is full, the file cannot be opened). No handler has a try around
\* its database calls: the exception leaves the handler, http.server
\* writes no response and closes the connection, the transaction is not
\* committed, and serve_forever goes on to the next request.
store_error(method, path, cookie_header, body) ==
    /\ request' = Request(method, path, cookie_header, body, NoForm)
    /\ response' = ConnectionClosed
    /\ UNCHANGED <<serverVars, clock>>
    /\ UNCHANGED appVars

\* handle_punch, lines 202-209, reached with a valid body
handle_punch_store_error(cookie_header, body) ==
    /\ PunchValid(body)
    /\ store_error("POST", "/punch", cookie_header, body)

\* serve_admin, lines 144-152, reached when authenticated
serve_admin_store_error(cookie_header) ==
    /\ is_authenticated(cookie_header, sessions)
    /\ store_error("GET", "/admin", cookie_header, NoBody)

\* handle_export, lines 256-260, reached when authenticated
handle_export_store_error(cookie_header) ==
    /\ is_authenticated(cookie_header, sessions)
    /\ store_error("GET", "/admin/export", cookie_header, NoBody)

\* the server of SpecRun with a database that may fail
NextFault ==
    \/ NextRun
    \/ \E c \in RunCookieHeaders, post \in RunPosts :
           handle_punch_store_error(c, post.body)
    \/ \E c \in RunCookieHeaders : serve_admin_store_error(c)
    \/ \E c \in RunCookieHeaders : handle_export_store_error(c)

SpecFault == Init /\ [][NextFault]_vars

\* the routes of app.py, each request on a thread of its own
AppBodies ==
    { Body(k, None, None, <<None, None>>) : k \in {"malformed", "array"} }
    \cup { Body("object", Some(<<"E", "1">>), Some("IN"), <<None, None>>),
           Body("object", Some(<<"E", "1">>), Some("in"), <<Some(15), Some(25)>>),
           Body("object", Some(<<"a", ",", "b">>), Some("out"), <<None, None>>) }

AppForms ==
    { Form(Some(ADMIN_USERNAME), p) :
        p \in {None, Some(ADMIN_PASSWORD), Some("guess")} }

NextApp ==
    \/ \E th \in 1..MaxThreads, body \in AppBodies : punch(th, body)
    \/ \E th \in 1..MaxThreads : punch_insert(th)
    \/ \E form \in AppForms, c \in AppCookieHeaders(app_cookies) :
           admin_login(form, c)
    \/ \E c \in AppCookieHeaders(app_cookies) : admin_dashboard(c)
    \/ \E c \in AppCookieHeaders(app_cookies) : admin_logout(c)
    \/ Tick

SpecApp == Init /\ [][NextApp]_vars

----------------------------------------------------------------------------
(* server.py, handle_login and handle_logout statement by statement *)

\* run() serves one request at a time, so the handlers never overlap. Here
\* they run on MaxThreads threads that may be switched between any two
\* accesses to sessions, as under a threading server: what holds for these
\* interleavings holds for the serial order too.
\* handle_login, lines 218-226: the credentials are compared and the
\* session id is generated
login_begin(th, form) ==
    /\ server_threads[th].pc = "idle"
    /\ form.utf8
    /\ UNCHANGED <<attendance, sqlite_sequence, sessions, clock, client>>
    /\ UNCHANGED <<app_attendance, app_sequence, app_cookies, app_logged_out,
                   app_threads>>
    /\ IF CredentialsMatch(form)
       THEN /\ generated # UUIDs
            /\ generated' = generated \cup {uuid4(generated)}
            /\ server_threads' = [server_threads EXCEPT ![th] =
                   [pc |-> "register", session_id |-> uuid4(generated)]]
            /\ UNCHANGED <<request, response>>
       ELSE /\ request' = Request("POST", "/admin/login", <<>>, NoBody, form)
            /\ response' = Redirect("/admin/login?error=1", None)
            /\ UNCHANGED <<generated, server_threads>>

\* handle_login, lines 227-231: sessions[session_id] = True, and the answer
login_register(th) ==
    /\ server_threads[th].pc = "register"
    /\ sessions' = Register(sessions, server_threads[th].session_id)
    /\ request' = Request("POST", "/admin/login", <<>>, NoBody,
                          Form(Some(ADMIN_USERNAME), Some(ADMIN_PASSWORD)))
    /\ response' = Redirect("/admin",
            Some(Cookie("session_id", server_threads[th].session_id)))
    /\ server_threads' = [server_threads EXCEPT ![th] = Waiting]
    /\ UNCHANGED <<attendance, sqlite_sequence, generated, clock, client>>
    /\ UNCHANGED <<app_attendance, app_sequence, app_cookies, app_logged_out,
                   app_threads>>

\* handle_logout, lines 240-241: the test session_id in sessions
logout_begin(th, cookie_header) ==
    /\ server_threads[th].pc = "idle"
    /\ UNCHANGED <<attendance, sqlite_sequence, sessions, generated, clock,
                   client>>
    /\ UNCHANGED <<app_attendance, app_sequence, app_cookies, app_logged_out,
                   app_threads>>
    /\ IF /\ Truthy(get_session_id(cookie_header))
          /\ get_session_id(cookie_header)[1] \in DOMAIN sessions
       THEN /\ server_threads' = [server_threads EXCEPT ![th] =
                   [pc |-> "delete",
                    session_id |-> get_session_id(cookie_header)[1]]]
            /\ UNCHANGED <<request, response>>
       ELSE /\ request' = Request("GET", "/admin/logout", cookie_header,
                                  NoBody, NoForm)
            /\ response' = Redirect("/admin/login",
                                    Some(Cookie("session_id", "deleted")))
            /\ UNCHANGED server_threads

\* handle_logout, lines 242-247: del sessions[session_id], which raises
\* KeyError when another thread has deleted the entry since the test
logout_delete(th) ==
    LET session_id == server_threads[th].session_id IN
    /\ server_threads[th].pc = "delete"
    /\ request' = Request("GET", "/admin/logout",
                          << Cookie("session_id", session_id) >>, NoBody, NoForm)
    /\ IF session_id \in DOMAIN sessions
       THEN /\ sessions' = [t \in (DOMAIN sessions) \ {session_id} |->
                               sessions[t]]
            /\ response' = Redirect("/admin/login",
                                    Some(Cookie("session_id", "deleted")))
       ELSE /\ response' = ConnectionClosed
            /\ UNCHANGED sessions
    /\ server_threads' = [server_threads EXCEPT ![th] = Waiting]
    /\ UNCHANGED <<attendance, sqlite_sequence, generated, clock, client>>
    /\ UNCHANGED <<app_attendance, app_sequence, app_cookies, app_logged_out,
                   app_threads>>

NextThreads ==
    \/ \E th \in 1..MaxThreads, post \in RunPosts : login_begin(th, post.form)
    \/ \E th \in 1..MaxThreads : login_register(th)
    \/ \E th \in 1..MaxThreads, c \in RunCookieHeaders : logout_begin(th, c)
    \/ \E th \in 1..MaxThreads : logout_delete(th)

SpecThreads == Init /\ [][NextThreads]_vars

----------------------------------------------------------------------------
(* server.py and app.py side by side *)

\* Both servers are started on empty databases and one client sends every
\* request to server.py and then to app.py, each with the cookie that
\* server gave it: a jar holds the cookies the two answers to one login
\* set. The client may present any jar it ever held.
NoRequest == Request("", "", <<>>, NoBody, NoForm)

BothPosts ==
    RunPosts
    \cup { [body |-> Body("array", None, None, <<None, None>>),
            form |-> Form(Some(ADMIN_USERNAME), None)] }

\* the request goes to server.py
send_to_server(jar, post) ==
    /\ client.phase = "server"
    /\ request = NoRequest
    /\ \/ handle_punch(jar.server, post.body)
       \/ handle_login(post.form)
       \/ handle_logout(jar.server)
       \/ serve_admin(jar.server)
       \/ handle_export(jar.server)

\* the client keeps the answer of server.py
hand_over ==
    /\ client.phase = "server"
    /\ request # NoRequest
    /\ client' = [client EXCEPT !.phase = "app", !.request = request,
                                !.server = response]
    /\ request' = NoRequest
    /\ response' = Page(0)
    /\ UNCHANGED <<attendance, sqlite_sequence, sessions, generated, clock,
                   app_attendance, app_sequence, app_cookies, app_logged_out,
                   app_threads, server_threads>>

JarOf(cookie_header) ==
    CHOOSE jar \in client.jars : jar.server = cookie_header

\* the same request goes to app.py, on one request thread
send_to_app ==
    /\ client.phase = "app"
    /\ request = NoRequest
    /\ LET r == client.request
           c == JarOf(r.cookie).app
       IN \/ r.path = "/punch" /\ punch(1, r.body)
          \/ r.path = "/punch" /\ punch_insert(1)
          \/ r.path = "/admin/login" /\ admin_login(r.form, c)
          \/ r.path = "/admin/logout" /\ admin_logout(c)
          \/ r.path = "/admin" /\ admin_dashboard(c)
          \/ r.path = "/admin/export" /\ export_csv(c)

SetCookieHeader(resp) ==
    IF resp.set_cookie = None THEN <<>> ELSE << resp.set_cookie[1] >>

\* the client keeps the answer of app.py, and the cookies of a login that
\* server.py accepted
collect ==
    /\ client.phase = "app"
    /\ request # NoRequest
    /\ client' =
         [phase |-> "server", request |-> client.request,
          server |-> client.server, app |-> response,
          jars |-> client.jars \cup
                     IF /\ client.request.path = "/admin/login"
                        /\ client.server.set_cookie # None
                     THEN { [server |-> SetCookieHeader(client.server),
                             app |-> SetCookieHeader(response)] }
                     ELSE {}]
    /\ request' = NoRequest
    /\ response' = Page(0)
    /\ UNCHANGED <<attendance, sqlite_sequence, sessions, generated, clock,
                   app_attendance, app_sequence, app_cookies, app_logged_out,
                   app_threads, server_threads>>

\* time passes between two requests
BothTick ==
    /\ client.phase = "server"
    /\ request = NoRequest
    /\ Tick

NextBoth ==
    \/ \E jar \in client.jars, post \in BothPosts : send_to_server(jar, post)
    \/ hand_over
    \/ send_to_app
    \/ collect
    \/ BothTick

SpecBoth == Init /\ [][NextBoth]_vars

----------------------------------------------------------------------------
(* Claims *)

SessionToken(cookie_header) == get_session_id(cookie_header)

Registered(cookie_header, reg) ==
    /\ SessionToken(cookie_header) # None
    /\ SessionToken(cookie_header)[1] \in DOMAIN reg

IsPrefix(s, t) ==
    /\ Len(s) <= Len(t)
    /\ \A i \in 1..Len(s) : s[i] = t[i]

\* C3: GET /admin and GET /admin/export answer 200 with data exactly when
\* the presented session token is registered in sessions; every other
\* request is redirected (302) to /admin/login and carries no record data.
C3_AdminIffRegistered ==
    (request.method = "GET" /\ request.path \in {"/admin", "/admin/export"})
        => IF Registered(request.cookie, sessions)
           THEN response.status = 200
           ELSE response = Redirect("/admin/login", None)

C3_Witness ==
    /\ request.path = "/admin/export"
    /\ SessionToken(request.cookie) # None
    /\ SessionToken(request.cookie)[1] \in generated \ DOMAIN sessions
    /\ response.status = 302
    /\ attendance # <<>>
    /\ sessions # << >>

\* C8: logout always redirects to /admin/login, removes at most the
\* presented token, leaves every other entry as it was, and a second
\* logout with the same token changes nothing more.
C8_LogoutFrame ==
    [][\A c \in CookieHeaders :
         handle_logout(c) =>
            /\ response'.status = 302
            /\ response'.location = "/admin/login"
            /\ DOMAIN sessions \ DOMAIN sessions'
                  \subseteq { SessionToken(c)[i] : i \in DOMAIN SessionToken(c) }
            /\ DOMAIN sessions' \subseteq DOMAIN sessions
            /\ \A t \in DOMAIN sessions' : sessions'[t] = sessions[t]
            /\ Destroy(sessions', c) = sessions']_vars

C8_Witness ==
    /\ request.path = "/admin/logout"
    /\ SessionToken(request.cookie) # None
    /\ SessionToken(request.cookie)[1] \in generated \ DOMAIN sessions
    /\ sessions # << >>

\* C9: the store is append-only: rows are never changed or removed, only a
\* successful POST /punch adds one, and no id occurs twice.
C9_UniqueIds ==
    \A i, j \in 1..Len(attendance) :
        i # j => attendance[i].id # attendance[j].id

C9_AppendOnly ==
    /\ []C9_UniqueIds
    /\ [][/\ IsPrefix(attendance, attendance')
          /\ attendance' # attendance =>
                /\ request'.method = "POST" /\ request'.path = "/punch"
                /\ response'.status = 200
                /\ Len(attendance') = Len(attendance) + 1
                /\ \A i \in 1..Len(attendance) :
                      attendance[i].id < attendance'[Len(attendance')].id]_vars

C9_Witness ==
    /\ Len(attendance) = 2
    /\ request.path = "/admin/logout"

\* a valid punch submission, as the claims word it
ValidSubmission(body) ==
    /\ body.kind = "object"
    /\ body.employee_id # None /\ Len(body.employee_id[1]) > 0
    /\ body.action # None /\ body.action[1] \in {"in", "out"}

Last(s) == s[Len(s)]

C1_Appended(body) ==
    /\ response'.status = 200
    /\ response'.json # NoJson /\ response'.json[1].success
    /\ Len(attendance') = Len(attendance) + 1
    /\ IsPrefix(attendance, attendance')
    /\ Last(attendance').employee_id = body.employee_id[1]
    /\ Last(attendance').action = body.action[1]
    /\ Last(attendance').latitude = body.latitude
    /\ Last(attendance').longitude = body.longitude
    /\ \A i \in 1..Len(attendance) : attendance[i].id < Last(attendance').id

C1_StrictlyLater ==
    \A i \in 1..Len(attendance) :
        attendance[i].timestamp < Last(attendance').timestamp

\* C1: a valid punch answers 200 success=true and adds exactly one record
\* with the submitted fields, whose id and timestamp are strictly greater
\* than those of every record already stored.
C1_PunchAddsLaterRecord ==
    [][\A body \in Bodies :
          (ValidSubmission(body) /\ handle_punch(<<>>, body))
              => (C1_Appended(body) /\ C1_StrictlyLater)]_vars

\* C2: a punch that is not a JSON object with a non-empty employee_id and
\* an action of in or out answers 400 with success=false and leaves the
\* store as it was.
C2_InvalidPunchIs400 ==
    [][\A body \in Bodies :
          (~ValidSubmission(body) /\ handle_punch(<<>>, body))
              => /\ response'.status = 400
                 /\ response'.json # NoJson /\ ~response'.json[1].success
                 /\ attendance' = attendance]_vars

\* text split at every occurrence of a delimiter
RECURSIVE Split(_, _)
Split(text, sep) ==
    IF \A i \in 1..Len(text) : text[i] # sep THEN << text >>
    ELSE LET k == CHOOSE i \in 1..Len(text) :
                      text[i] = sep /\ \A j \in 1..(i - 1) : text[j] # sep
         IN << SubSeq(text, 1, k - 1) >>
                \o Split(SubSeq(text, k + 1, Len(text)), sep)

\* a CSV text read back: its lines, each split into its fields
ParseCsv(text) ==
    LET lines == Split(text, "\n")
    IN [i \in 1..Len(lines) |-> Split(lines[i], ",")]

\* the five fields of a record as the export is to show them
CsvFields(rec) ==
    << rec.employee_id, << rec.action >>, IsoFormat(rec.timestamp),
       IF rec.latitude = None THEN <<>> ELSE FloatText(rec.latitude[1]),
       IF rec.longitude = None THEN <<>> ELSE FloatText(rec.longitude[1]) >>

HeaderFields == << <<"Employee ID">>, <<"Action">>, <<"Timestamp (UTC)">>,
                   <<"Latitude">>, <<"Longitude">> >>

\* C7: the export is the header row and one row per record, and read back
\* it gives the records of an ascending-by-timestamp listing of the store.
C7_CsvRoundTrip ==
    (request.path = "/admin/export" /\ response.status = 200)
        => LET parsed == ParseCsv(response.csv) IN
             /\ parsed[1] = HeaderFields
             /\ Len(parsed) = 1 + Len(attendance)
             /\ \E listing \in OrderByTimestamp(attendance, FALSE) :
                    \A i \in 1..Len(listing) :
                        parsed[i + 1] = CsvFields(listing[i])

\* ListAll of the specification: by timestamp, ties by id
ListAll(table, desc) ==
    CHOOSE listing \in OrderByTimestamp(table, desc) :
        \A i, j \in 1..Len(listing) :
            (i < j /\ listing[i].timestamp = listing[j].timestamp)
                => listing[i].id < listing[j].id

C4_LogoutRevokesToken ==
    (request.method = "GET" /\ request.path = "/admin")
        => LET v == CookieValue(request.cookie, "session") IN
             /\ (v # None /\ v[1] \in app_logged_out)
                    => response = Redirect("/admin/login", None)
             /\ (v # None /\ v[1] \in {"admin", "admin+flashes"}
                          /\ v[1] \in app_cookies \ app_logged_out)
                    => response.status = 200

CorrectCredentials(form) ==
    /\ form.utf8
    /\ form.username = Some(ADMIN_USERNAME)
    /\ form.password = Some(ADMIN_PASSWORD)

\* C5: a login with a wrong username or password leaves the session
\* registry as it was, sets no cookie and redirects to the login page, and
\* a GET /admin right after it without a registered token is redirected.
C5_FailedLoginRedirects ==
    /\ [][\A form \in Forms :
            (~CorrectCredentials(form) /\ handle_login(form))
                => /\ sessions' = sessions
                   /\ response'.set_cookie = None
                   /\ response'.status = 302
                   /\ response'.location = "/admin/login?error=1"]_vars
    /\ [][\A c \in CookieHeaders :
            (/\ request.method = "POST" /\ request.path = "/admin/login"
             /\ ~CorrectCredentials(request.form)
             /\ ~Registered(c, sessions)
             /\ serve_admin(c))
                => response' = Redirect("/admin/login", None)]_vars

\* C6: punches handled concurrently get distinct ids, and the record with
\* the smaller id never has the later timestamp.
C6_IdsFollowTimestamps ==
    \A i, j \in 1..Len(app_attendance) :
        /\ i # j => app_attendance[i].id # app_attendance[j].id
        /\ app_attendance[i].id < app_attendance[j].id
              => app_attendance[i].timestamp <= app_attendance[j].timestamp

\* two bodies that differ at most in the keys the handler does not read
SameButExtra(b1, b2) ==
    [b1 EXCEPT !.extra = << >>] = [b2 EXCEPT !.extra = << >>]

\* C11: the id and timestamp of the record a valid punch stores are those
\* any valid punch differing only in extra keys of the body, such as id or
\* timestamp, gets in the same store state at the same clock reading.
C11_IdAndTimestampFromServer ==
    [][LET b1 == request'.body IN
         (/\ request'.path = "/punch"
          /\ ValidSubmission(b1)
          /\ handle_punch(<<>>, b1))
            => \A b2 \in Bodies :
                 (ValidSubmission(b2) /\ SameButExtra(b1, b2))
                    => LET other == Last(InsertPunch(attendance,
                                            sqlite_sequence, b2, clock))
                       IN /\ Last(attendance').id = other.id
                          /\ Last(attendance').timestamp = other.timestamp
                          /\ Last(attendance').id = sqlite_sequence + 1
                          /\ Last(attendance').timestamp = clock]_vars

\* a punch carrying id and timestamp keys has been stored after another
C11_Witness ==
    /\ request.path = "/punch"
    /\ request.body.extra # << >>
    /\ response.status = 200
    /\ Len(attendance) = 2
    /\ Last(attendance).id # request.body.extra.id
    /\ Last(attendance).timestamp # request.body.extra.timestamp

\* the routes of the specification's table
Routes ==
    { <<"GET", "/">>, <<"POST", "/punch">>, <<"GET", "/admin/login">>,
      <<"POST", "/admin/login">>, <<"GET", "/admin">>,
      <<"GET", "/admin/logout">>, <<"GET", "/admin/export">> }

Unrouted(method) == { p \in Paths : <<method, p>> \notin Routes }

NotFoundNoChange ==
    /\ response'.status = 404
    /\ attendance' = attendance /\ sqlite_sequence' = sqlite_sequence
    /\ sessions' = sessions

StoreFailed ==
    LET c == request'.cookie IN
        \/ handle_punch_store_error(c, request'.body)
        \/ serve_admin_store_error(c)
        \/ handle_export_store_error(c)

\* C13: a punch, dashboard or export request during which the store fails
\* is answered 500 with no content, leaves the store with the new row
\* fully committed or unchanged, and the server handles the requests that
\* follow.
C13_StoreFailureIs500 ==
    [][StoreFailed
          => /\ response' = Page(500)
             /\ \/ attendance' = attendance
                \/ /\ ValidSubmission(request'.body)
                   /\ attendance' = InsertPunch(attendance, sqlite_sequence,
                                                request'.body, clock)
             /\ sessions' = sessions]_vars

\* C14: app.py and server.py answer every request of every sequence of
\* punch, login, logout, dashboard and export requests, replayed cookies
\* included, with the same status and redirect target, and hold the same
\* records afterwards.
C14_SameAnswers ==
    (client.phase = "server" /\ request = NoRequest)
        => /\ client.app.status = client.server.status
           /\ client.app.location = client.server.location
           /\ app_attendance = attendance

\* C15: however login and logout handlers interleave on sessions, a login
\* registers a token that is not in the registry at that moment and keeps
\* every other entry, and an entry is removed only by a logout that
\* presented its token.
C15_RegistrySafeUnderInterleaving ==
    [][/\ \A th \in 1..MaxThreads :
            login_register(th)
               => /\ server_threads[th].session_id \notin DOMAIN sessions
                  /\ DOMAIN sessions' = DOMAIN sessions
                        \cup {server_threads[th].session_id}
                  /\ \A t \in DOMAIN sessions : sessions'[t] = sessions[t]
       /\ \A t \in DOMAIN sessions \ DOMAIN sessions' :
            \E th \in 1..MaxThreads :
                /\ server_threads[th] = [pc |-> "delete", session_id |-> t]
                /\ logout_delete(th)]_vars

\* a logout has removed its token while a login was between generating
\* and registering its own, and another session is still registered
C15_Witness ==
    /\ request.path = "/admin/logout"
    /\ response.status = 302
    /\ SessionToken(request.cookie) # None
    /\ SessionToken(request.cookie)[1] \in generated \ DOMAIN sessions
    /\ sessions # << >>
    /\ \E th \in 1..MaxThreads : server_threads[th].pc = "register"

\* C16: a registered token stays registered, and GET /admin presenting it
\* is answered 200, through every other request; it leaves the registry
\* only by a logout presenting it or by a restart, which empties the
\* registry and keeps the attendance store.
C16_SessionsNeverExpire ==
    /\ [][\A t \in DOMAIN sessions \ DOMAIN sessions' :
             \/ Restart
             \/ /\ request'.path = "/admin/logout"
                /\ SessionToken(request'.cookie) = Some(t)
                /\ handle_logout(request'.cookie)]_vars
    /\ [][\A t \in DOMAIN sessions :
             serve_admin(<< Cookie("session_id", t) >>)
                => response'.status = 200]_vars
    /\ [][Restart => /\ sessions' = << >>
                     /\ attendance' = attendance
                     /\ sqlite_sequence' = sqlite_sequence]_vars

\* the first token opens the dashboard after a punch was stored and after
\* a second token was registered and logged out
C16_Witness ==
    /\ request.path = "/admin"
    /\ request.cookie = << Cookie("session_id", "uuid1") >>
    /\ response.status = 200
    /\ "uuid2" \in generated \ DOMAIN sessions
    /\ attendance # <<>>

\* the step handles a request with this method and one of these paths
Handles(method, paths) ==
    /\ request'.method = method /\ request'.path \in paths
    /\ \/ method = "GET" /\ do_GET(request'.path, request'.cookie)
       \/ /\ method = "POST"
          /\ \E post \in RunPosts :
                do_POST(request'.path, request'.cookie, post.body, post.form)

\* C17: a successful login adds exactly one entry, mapped to true, a
\* logout removes at most the presented token, and no other request
\* changes the registry, with or without a token; every entry is true;
\* and what POST /punch answers and stores is fixed by the body, the store
\* and the clock, whatever session the request carries.
C17_RegistryFrame ==
    /\ [](\A t \in DOMAIN sessions : sessions[t] = TRUE)
    /\ [][(Handles("POST", {"/admin/login"})
             /\ CorrectCredentials(request'.form))
            => \E t \in UUIDs \ DOMAIN sessions :
                  sessions' = [u \in DOMAIN sessions \cup {t} |->
                                  IF u = t THEN TRUE ELSE sessions[u]]]_vars
    /\ [][Handles("GET", {"/admin/logout"})
            => sessions' = [u \in DOMAIN sessions \
                                { SessionToken(request'.cookie)[i] :
                                    i \in DOMAIN SessionToken(request'.cookie) }
                              |-> sessions[u]]]_vars
    /\ [][(\/ Handles("GET", Paths \ {"/admin/logout"})
           \/ Handles("POST", Paths \ {"/admin/login"})
           \/ (Handles("POST", {"/admin/login"})
                 /\ ~CorrectCredentials(request'.form)))
            => sessions' = sessions]_vars
    /\ [][Handles("POST", {"/punch"})
            => IF ValidSubmission(request'.body)
               THEN /\ response' = JsonResponse(200, TRUE,
                                       "Punch recorded successfully.")
                    /\ attendance' = InsertPunch(attendance, sqlite_sequence,
                                                 request'.body, clock)
               ELSE /\ response'.status = 400
                    /\ attendance' = attendance]_vars

\* a punch carrying a registered token has been stored after another punch
C17_Witness ==
    /\ request.path = "/punch"
    /\ Registered(request.cookie, sessions)
    /\ response.status = 200
    /\ Len(attendance) = 2

====
